---------------------------- MODULE Spec2Model ----------------------------
(***************************************************************************)
(* Model of examples/nlp/duplex_text_normalization/analyze_errors.py:      *)
(* the lcs() function, ErrorCase.get_spans() and the ErrorCase constructor *)
(* (tokenisation, LCS alignment, greedy marking, span extraction and the   *)
(* per-span classification chain), the batch loop and the report of        *)
(* analyze(), and the per-class statistics of                              *)
(* class_based_evaluation_cg.py (the fold of main and the counts of        *)
(* print_class_based_stats).                                               *)
(*                                                                         *)
(* Strings are sequences of one-character strings, tokens are strings.     *)
(* Span indices and the lcs cursors keep the 0-based values of the Python  *)
(* code; TLA+ sequences are 1-based, so Python's s[k] is s[k + 1] here.    *)
(* A Python exception is the terminal state pc = "raised" with its class   *)
(* name in exc.                                                            *)
(***************************************************************************)
EXTENDS Integers, Sequences, FiniteSets, TLC

\* ----------------------------------------------------------------- bounds
\* longest token list handed to a direct call of lcs()
MaxLen == 3
\* longest mask handed to a direct call of get_spans()
MaxMask == 5
\* most tokens in the target / pred string of a constructed ErrorCase
MaxTokens == 3

\* the words the input strings are made of
Vocab == { <<"s">>, <<"z">>, <<"S", ".">> }
\* the strings the alternate generator (normalizer.normalize) may return
AltPool == { <<"s">>, <<"z", " ", "s">> }

\* ---------------------------------------------------------------- helpers
EmptyStr == <<>>

Max(a, b) == IF a >= b THEN a ELSE b

Min(a, b) == IF a <= b THEN a ELSE b

\* all sequences over S with length in lo..hi
SeqsOf(S, lo, hi) == UNION { [1..k -> S] : k \in lo..hi }

\* Python: [v] * n
Repeat(v, n) == [k \in 1..n |-> v]

\* Python: sep.join(tokens) with sep = ' '
RECURSIVE Join(_)
Join(tokens) ==
    IF Len(tokens) = 0 THEN EmptyStr
    ELSE IF Len(tokens) = 1 THEN tokens[1]
    ELSE tokens[1] \o <<" ">> \o Join(Tail(tokens))

\* Python: s.split(' ')  (every single space separates; "" gives [''])
RECURSIVE Split(_)
Split(s) ==
    IF \A k \in 1..Len(s) : s[k] # " " THEN <<s>>
    ELSE LET k == CHOOSE q \in 1..Len(s) :
                      s[q] = " " /\ \A r \in 1..(q - 1) : s[r] # " "
         IN <<SubSeq(s, 1, k - 1)>> \o Split(SubSeq(s, k + 1, Len(s)))

\* ------------------------------------------------------------------ lcs()
\* unequal tokens copy the cell above, the cell to the left is not looked at
LValue_noLeft(i, j, same, diag, up, left) ==
    IF i = 0 \/ j = 0 THEN 0
    ELSE IF same THEN diag + 1
    ELSE up

\* one cell of the table L, lines 60-65
LValue(i, j, same, diag, up, left) ==
    IF i = 0 \/ j = 0 THEN 0
    ELSE IF same THEN diag + 1
    ELSE Max(up, left)

\* the table L built bottom up, lines 53-65
LTable(x, y) ==
    LET m == Len(x)
        n == Len(y)
        T[i \in 0..m, j \in 0..n] ==
            IF i = 0 \/ j = 0 THEN LValue(i, j, FALSE, 0, 0, 0)
            ELSE LValue(i, j, x[i] = y[j], T[i - 1, j - 1], T[i - 1, j], T[i, j - 1])
    IN [i \in 0..m |-> [j \in 0..n |-> T[i, j]]]

\* a tie L[i-1][j] = L[i][j-1] taken as "up"
BacktrackStep_upOnTie(x, y, T, s) ==
    IF x[s.i] = y[s.j]
    THEN [i |-> s.i - 1, j |-> s.j - 1, index |-> s.index - 1,
          buf |-> [s.buf EXCEPT ![s.index] = x[s.i]], move |-> "match"]
    ELSE IF T[s.i - 1][s.j] >= T[s.i][s.j - 1]
    THEN [s EXCEPT !.i = s.i - 1, !.move = "up"]
    ELSE [s EXCEPT !.j = s.j - 1, !.move = "left"]

\* one iteration of the while loop, lines 78-93; s = [i, j, index, buf] and
\* move, the branch the iteration took
BacktrackStep(x, y, T, s) ==
    IF x[s.i] = y[s.j]
    THEN [i |-> s.i - 1, j |-> s.j - 1, index |-> s.index - 1,
          buf |-> [s.buf EXCEPT ![s.index] = x[s.i]], move |-> "match"]
    ELSE IF T[s.i - 1][s.j] > T[s.i][s.j - 1]
    THEN [s EXCEPT !.i = s.i - 1, !.move = "up"]
    ELSE [s EXCEPT !.j = s.j - 1, !.move = "left"]

\* the sentinel slot is returned with the subsequence
LcsReturn_keepSentinel(buf) == buf

\* return lcs[:-1], line 95
LcsReturn(buf) == SubSeq(buf, 1, Len(buf) - 1)

\* ------------------------------------------------------------ get_spans()
\* a changed last element closes the open span on the last index
LastSpans_overlap(cur_start_idx, cur_bool_val, nb_tokens, last) ==
    IF last # cur_bool_val
    THEN << <<cur_start_idx, nb_tokens - 1, cur_bool_val>>,
            <<nb_tokens - 1, nb_tokens - 1, last>> >>
    ELSE << <<cur_start_idx, nb_tokens - 1, cur_bool_val>> >>

\* the spans appended at idx = nb_tokens - 1, lines 264-269
LastSpans(cur_start_idx, cur_bool_val, nb_tokens, last) ==
    IF last # cur_bool_val
    THEN << <<cur_start_idx, nb_tokens - 2, cur_bool_val>>,
            <<nb_tokens - 1, nb_tokens - 1, last>> >>
    ELSE << <<cur_start_idx, nb_tokens - 1, cur_bool_val>> >>

\* the for loop of get_spans from index idx on, lines 263-273
RECURSIVE SpanLoop(_, _, _, _, _)
SpanLoop(tokens_highlight, idx, cur_start_idx, cur_bool_val, spans) ==
    LET nb_tokens == Len(tokens_highlight)
        cur == tokens_highlight[idx + 1]
    IN IF idx >= nb_tokens THEN spans
       ELSE IF idx = nb_tokens - 1
       THEN spans \o LastSpans(cur_start_idx, cur_bool_val, nb_tokens, cur)
       ELSE IF cur # cur_bool_val
       THEN SpanLoop(tokens_highlight, idx + 1, idx, cur,
                     Append(spans, <<cur_start_idx, idx - 1, cur_bool_val>>))
       ELSE SpanLoop(tokens_highlight, idx + 1, cur_start_idx, cur_bool_val, spans)

\* an empty mask yields an empty span list
get_spans_emptyOk(tokens_highlight) ==
    IF Len(tokens_highlight) = 0
    THEN [exc |-> "none", spans |-> <<>>]
    ELSE [exc |-> "none",
          spans |-> SpanLoop(tokens_highlight, 0, 0, tokens_highlight[1], <<>>)]

\* ErrorCase.get_spans, lines 249-274: tokens_highlight[0] on line 262 is an
\* IndexError for an empty list, and then nothing is returned
get_spans(tokens_highlight) ==
    IF Len(tokens_highlight) = 0
    THEN [exc |-> "IndexError", spans |-> <<>>]
    ELSE [exc |-> "none",
          spans |-> SpanLoop(tokens_highlight, 0, 0, tokens_highlight[1], <<>>)]

\* ------------------------------------------------- _remove_punctuation()
\* the characters of string.punctuation that occur in the model's alphabet
Punct == { "." }

\* the characters removed by remove_spaces: the space and the no-break space
Spaces == { " ", "nbsp" }

\* one character of str.lower()
Lower(c) == IF c = "S" THEN "s" ELSE IF c = "Z" THEN "z" ELSE c

\* str.strip(): leading and trailing whitespace removed
RECURSIVE Strip(_)
Strip(s) ==
    IF Len(s) = 0 THEN s
    ELSE IF s[1] = " " THEN Strip(Tail(s))
    ELSE IF s[Len(s)] = " " THEN Strip(SubSeq(s, 1, Len(s) - 1))
    ELSE s

\* _remove_punctuation(word) with its defaults remove_spaces = do_lower =
\* True, lines 294-306
_remove_punctuation(word) ==
    LET no_punct  == SelectSeq(word, LAMBDA c : c \notin Punct)
        no_spaces == Strip(SelectSeq(no_punct, LAMBDA c : c \notin Spaces))
    IN [k \in 1..Len(no_spaces) |-> Lower(no_spaces[k])]

\* s.replace("s", "z"), line 170
ReplaceSZ(s) == [k \in 1..Len(s) |-> IF s[k] = "s" THEN "z" ELSE s[k]]

\* ----------------------------------------------- ErrorCase.__init__ parts
\* the search starts at the head of the list, whatever the cursor
FirstFrom_ignoreCursor(tokens, idx, token) ==
    IF \E k \in 1..Len(tokens) : tokens[k] = token
    THEN (CHOOSE k \in 1..Len(tokens) :
              tokens[k] = token /\ \A q \in 1..(k - 1) : tokens[q] # token) - 1
    ELSE Len(tokens)

\* while tokens[idx] != token: idx += 1, lines 128-131. The value is the
\* index the loop stops at; Len(tokens) stands for the IndexError of running
\* past the end
RECURSIVE FirstFrom(_, _, _)
FirstFrom(tokens, idx, token) ==
    IF idx >= Len(tokens) THEN Len(tokens)
    ELSE IF tokens[idx + 1] = token THEN idx
    ELSE FirstFrom(tokens, idx + 1, token)

\* the text of a span: " ".join(tokens[start : end + 1]), lines 159-160
SpanText(tokens, span) == Join(SubSeq(tokens, span[1] + 1, span[2] + 1))

\* the strings an ErrorCase is built from: MaxTokens words at most, or the
\* empty string (which split(' ') turns into the one token '')
InputStrings == { Join(ts) : ts \in SeqsOf(Vocab, 1, MaxTokens) } \cup { EmptyStr }

\* what normalizer.normalize() can do: raise, or return alternatives
GenOutcomes == { [ok |-> FALSE, alts |-> {}] }
                   \cup { [ok |-> TRUE, alts |-> a] : a \in SUBSET AltPool }

\* --------------------------------------------------------------- analyze()
\* most records in the errors log
MaxRecords == 2

\* constants.TN_MODE and constants.ITN_MODE
TN_MODE == "tn"

ITN_MODE == "itn"

\* the target and the prediction a record of the log can carry
RecordTexts == { [target |-> <<"s">>, pred |-> <<"s">>],
                 [target |-> <<"s">>, pred |-> <<"z">>] }

\* a block of 8 lines of the log: its first line, whether its info lines
\* hold the four fields from_lines reads, and the strings of the fields
Records == [marker : {"Forward Problem", "Backward Problem", "other"},
            complete : BOOLEAN,
            text : RecordTexts]

\* ErrorCase.from_lines(lines, mode, normalizer), lines 194-215, up to its
\* call of the constructor. normalizer has no default value: a call without
\* it is a TypeError. A field no line carries leaves its local unbound, and
\* line 215 then is an UnboundLocalError
from_lines(lines, m, nz) ==
    IF nz = "missing" THEN [exc |-> "TypeError"]
    ELSE IF ~lines.complete THEN [exc |-> "UnboundLocalError"]
    ELSE [exc |-> "none"]

\* ------------------------------------- class_based_evaluation_cg.main()
\* most outcomes folded into the statistics in one run
MaxOutcomes == 3

\* constants.INST_FORWARD and constants.INST_BACKWARD
INST_FORWARD == "FORWARD"

INST_BACKWARD == "BACKWARD"

\* the semiotic classes of the instances
Classes == { "PLAIN", "DATE" }

\* what one instance contributes: its direction, its class and the value
\* of is_same(pred, target, direction, lang)
Outcomes == [direction : {INST_FORWARD, INST_BACKWARD},
             class : Classes,
             correct : BOOLEAN]

\* the dict {}
EmptyDict == [c \in {} |-> <<>>]

\* np.sum of a list of ints
RECURSIVE Sum(_)
Sum(xs) == IF Len(xs) = 0 THEN 0 ELSE xs[1] + Sum(Tail(xs))

\* the list of the class is emptied before every append
FoldOne_resetList(stats, _class, correct) ==
    [c \in DOMAIN stats \cup {_class} |->
        IF c = _class THEN <<IF correct THEN 1 ELSE 0>> ELSE stats[c]]

\* lines 122-124: a class seen for the first time gets an empty list, then
\* int(correct) is appended to the list of the class
FoldOne(stats, _class, correct) ==
    LET with_key == IF _class \notin DOMAIN stats
                    THEN [c \in DOMAIN stats \cup {_class} |->
                             IF c = _class THEN <<>> ELSE stats[c]]
                    ELSE stats
    IN [with_key EXCEPT ![_class] = Append(@, IF correct THEN 1 ELSE 0)]

\* print_class_based_stats, lines 45-47: the correct count and the total
\* count of every class of a dict
ClassCounts(class2stats) ==
    [c \in DOMAIN class2stats |->
        [correct_count |-> Sum(class2stats[c]),
         total_count |-> Len(class2stats[c])]]

\* ------------------------------------------------------------------ state
VARIABLES
    pc,          \* where the running call is
    caller,      \* the function running: "lcs", "get_spans", "ErrorCase",
                 \* "analyze", "main"
    exc,         \* the exception raised, "none" when there is none
    X, Y,        \* the arguments of lcs
    L,           \* the table of lcs
    walk,        \* i, j, index, the list lcs and the last move of the walk
    lcs_tokens,  \* the list lcs returned
    target, pred, normalizer,        \* constructor arguments
    target_tokens, pred_tokens,
    target_tokens_highlight, pred_tokens_highlight,
    target_idx, pred_idx,
    tok_k,       \* number of lcs tokens the marking loop has consumed
    target_spans, pred_spans,
    pair_ix,     \* position of the zip loop of line 154
    branch,      \* the counter statement the chain reached
    wfst_pred,   \* the alternatives normalizer.normalize returned
    gen_calls,   \* calls of normalizer.normalize made
    tokens_highlight, spans,         \* argument and value of get_spans
    run,         \* the program running: "none", "analyze", "main"
    records,     \* the records of the errors log analyze reads
    ix,          \* number of records the loop of analyze is past
    mode,        \* the mode of the case under construction in analyze
    tn_error_cases, itn_error_cases,   \* cases by the index of their record
    report,      \* the sections analyze has written
    outcomes,    \* the (direction, class, correct) triples main folds
    fold_k,      \* number of outcomes folded
    itn_class2stats, tn_class2stats,
    printed      \* the counts print_class_based_stats has printed

lcsVars == <<X, Y, L, walk, lcs_tokens>>

markVars == <<target_tokens_highlight, pred_tokens_highlight,
              target_idx, pred_idx, tok_k>>

caseVars == <<target, pred, normalizer, target_tokens, pred_tokens>>

chainVars == <<branch, wfst_pred, gen_calls>>

spanVars == <<target_spans, pred_spans, pair_ix>>

directVars == <<tokens_highlight, spans>>

batchVars == <<run, records, ix, mode, tn_error_cases, itn_error_cases, report>>

statVars == <<outcomes, fold_k, itn_class2stats, tn_class2stats, printed>>

vars == <<pc, caller, exc, lcsVars, markVars, caseVars, chainVars,
          spanVars, directVars, batchVars, statVars>>

Init ==
    /\ pc = "idle" /\ caller = "none" /\ exc = "none"
    /\ X = <<>> /\ Y = <<>> /\ L = <<>>
    /\ walk = [i |-> 0, j |-> 0, index |-> 0, buf |-> <<>>, move |-> "none"]
    /\ lcs_tokens = <<>>
    /\ target = <<>> /\ pred = <<>> /\ normalizer = "None"
    /\ target_tokens = <<>> /\ pred_tokens = <<>>
    /\ target_tokens_highlight = <<>> /\ pred_tokens_highlight = <<>>
    /\ target_idx = 0 /\ pred_idx = 0 /\ tok_k = 0
    /\ target_spans = <<>> /\ pred_spans = <<>> /\ pair_ix = 0
    /\ branch = "none" /\ wfst_pred = {} /\ gen_calls = 0
    /\ tokens_highlight = <<>> /\ spans = <<>>
    /\ run = "none" /\ records = <<>> /\ ix = 0 /\ mode = "none"
    /\ tn_error_cases = <<>> /\ itn_error_cases = <<>>
    /\ report = [written |-> FALSE, tn |-> <<>>, itn |-> <<>>]
    /\ outcomes = <<>> /\ fold_k = 0
    /\ itn_class2stats = EmptyDict /\ tn_class2stats = EmptyDict
    /\ printed = [itn |-> EmptyDict, tn |-> EmptyDict]

\* lines 53-77: the table, the list lcs and the start of the walk
LcsEnter(x, y) ==
    LET T == LTable(x, y)
        index == T[Len(x)][Len(y)]
    IN /\ X' = x /\ Y' = y /\ L' = T
       /\ walk' = [i |-> Len(x), j |-> Len(y), index |-> index,
                   buf |-> Repeat(EmptyStr, index + 1), move |-> "none"]
       /\ lcs_tokens' = <<>>
       /\ pc' = "lcs_walk"

\* a direct call lcs(X, Y)
CallLcs ==
    /\ pc = "idle"
    /\ \E x, y \in SeqsOf(Vocab, 0, MaxLen) : LcsEnter(x, y)
    /\ caller' = "lcs"
    /\ UNCHANGED <<exc, markVars, caseVars, chainVars, spanVars, directVars, batchVars, statVars>>

\* lines 111-123: the constructor up to its call of lcs
Construct ==
    /\ pc = "idle"
    /\ \E t, p \in InputStrings, nz \in {"None", "NormalizerWithAudio"} :
          /\ target' = t /\ pred' = p /\ normalizer' = nz
          /\ target_tokens' = Split(t)
          /\ pred_tokens' = Split(p)
          /\ LcsEnter(Split(t), Split(p))
    /\ caller' = "ErrorCase"
    /\ UNCHANGED <<exc, markVars, chainVars, spanVars, directVars, batchVars, statVars>>

\* one iteration of the while loop of lines 78-93
LcsWalk ==
    /\ pc = "lcs_walk"
    /\ walk.i > 0 /\ walk.j > 0
    /\ walk' = BacktrackStep(X, Y, L, walk)
    /\ UNCHANGED <<pc, caller, exc, X, Y, L, lcs_tokens, markVars, caseVars,
                   chainVars, spanVars, directVars, batchVars, statVars>>

\* line 95, and for the constructor lines 124-126
LcsExit ==
    /\ pc = "lcs_walk"
    /\ ~(walk.i > 0 /\ walk.j > 0)
    /\ lcs_tokens' = LcsReturn(walk.buf)
    /\ IF caller = "ErrorCase"
       THEN /\ pc' = "mark"
            /\ target_tokens_highlight' = Repeat(FALSE, Len(target_tokens))
            /\ pred_tokens_highlight' = Repeat(FALSE, Len(pred_tokens))
            /\ target_idx' = 0 /\ pred_idx' = 0 /\ tok_k' = 0
       ELSE /\ pc' = "done"
            /\ UNCHANGED markVars
    /\ UNCHANGED <<caller, exc, X, Y, L, walk, caseVars, chainVars, spanVars,
                   directVars, batchVars, statVars>>

\* one iteration of the for loop of lines 127-135
MarkStep ==
    /\ pc = "mark"
    /\ tok_k < Len(lcs_tokens)
    /\ LET token == lcs_tokens[tok_k + 1]
           t == FirstFrom(target_tokens, target_idx, token)
           p == FirstFrom(pred_tokens, pred_idx, token)
       IN IF t >= Len(target_tokens)
          THEN /\ pc' = "raised" /\ exc' = "IndexError"
               /\ target_idx' = t
               /\ UNCHANGED <<target_tokens_highlight, pred_tokens_highlight,
                              pred_idx, tok_k>>
          ELSE IF p >= Len(pred_tokens)
          THEN /\ pc' = "raised" /\ exc' = "IndexError"
               /\ target_idx' = t /\ pred_idx' = p
               /\ UNCHANGED <<target_tokens_highlight, pred_tokens_highlight,
                              tok_k>>
          ELSE /\ target_tokens_highlight' =
                      [target_tokens_highlight EXCEPT ![t + 1] = TRUE]
               /\ pred_tokens_highlight' =
                      [pred_tokens_highlight EXCEPT ![p + 1] = TRUE]
               /\ target_idx' = t + 1 /\ pred_idx' = p + 1
               /\ tok_k' = tok_k + 1
               /\ UNCHANGED <<pc, exc>>
    /\ UNCHANGED <<caller, lcsVars, caseVars, chainVars, spanVars, directVars, batchVars, statVars>>

\* lines 138-139 (lines 141-152 compute lists that nothing reads)
ExtractSpans ==
    /\ pc = "mark"
    /\ tok_k >= Len(lcs_tokens)
    /\ LET ts == get_spans(target_tokens_highlight)
           ps == get_spans(pred_tokens_highlight)
       IN IF ts.exc # "none"
          THEN /\ pc' = "raised" /\ exc' = ts.exc
               /\ UNCHANGED spanVars
          ELSE IF ps.exc # "none"
          THEN /\ pc' = "raised" /\ exc' = ps.exc
               /\ target_spans' = ts.spans
               /\ UNCHANGED <<pred_spans, pair_ix>>
          ELSE /\ pc' = "pairs" /\ exc' = exc
               /\ target_spans' = ts.spans /\ pred_spans' = ps.spans
               /\ pair_ix' = 0
    /\ UNCHANGED <<caller, lcsVars, markVars, caseVars, chainVars, directVars, batchVars, statVars>>

\* the zip of line 154 stops with the shorter span list
NbPairs == Min(Len(pred_spans), Len(target_spans))

\* one iteration of the loop of line 154 up to the else of line 172. The
\* counters of lines 169 and 171 are names that __init__ assigns and never
\* initialises, so reading them is an UnboundLocalError
PairStep ==
    /\ pc = "pairs"
    /\ pair_ix < NbPairs
    /\ LET no_error_pred == pred_spans[pair_ix + 1][3]
           pred_no_punct == Strip(_remove_punctuation(pred))
           target_no_punct == Strip(_remove_punctuation(target))
       IN IF no_error_pred
          THEN /\ pair_ix' = pair_ix + 1
               /\ UNCHANGED <<pc, exc, branch>>
          ELSE IF pred_no_punct = target_no_punct
          THEN /\ branch' = "correct_with_no_punct"
               /\ pc' = "raised" /\ exc' = "UnboundLocalError"
               /\ UNCHANGED pair_ix
          ELSE IF ReplaceSZ(pred_no_punct) = ReplaceSZ(target_no_punct)
          THEN /\ branch' = "correct_with_zs"
               /\ pc' = "raised" /\ exc' = "UnboundLocalError"
               /\ UNCHANGED pair_ix
          ELSE /\ pc' = "normalize"
               /\ UNCHANGED <<exc, branch, pair_ix>>
    /\ UNCHANGED <<caller, lcsVars, markVars, caseVars, wfst_pred, gen_calls,
                   target_spans, pred_spans, directVars, batchVars, statVars>>

\* line 173: the call of the alternate generator. No try surrounds it, and
\* normalizer defaults to None
NormalizerCall ==
    /\ pc = "normalize"
    /\ IF normalizer = "None"
       THEN /\ pc' = "raised" /\ exc' = "AttributeError"
            /\ UNCHANGED <<wfst_pred, gen_calls>>
       ELSE \E r \in GenOutcomes :
               /\ gen_calls' = gen_calls + 1
               /\ IF r.ok
                  THEN /\ wfst_pred' = r.alts
                       /\ pc' = "filter" /\ exc' = exc
                  ELSE /\ pc' = "raised" /\ exc' = "GenerationError"
                       /\ UNCHANGED wfst_pred
    /\ UNCHANGED <<caller, lcsVars, markVars, caseVars, branch, spanVars,
                   directVars, batchVars, statVars>>

\* lines 174-188: remove_punctuation is a name the module never defines, so
\* the comprehension of line 174 is a NameError on the first alternative;
\* with no alternative the membership test fails and line 188 reads the
\* unbound counter wrong
FilterAlternates ==
    /\ pc = "filter"
    /\ IF wfst_pred # {}
       THEN /\ pc' = "raised" /\ exc' = "NameError"
            /\ UNCHANGED branch
       ELSE /\ branch' = "wrong"
            /\ pc' = "raised" /\ exc' = "UnboundLocalError"
    /\ UNCHANGED <<caller, lcsVars, markVars, caseVars, wfst_pred, gen_calls,
                   spanVars, directVars, batchVars, statVars>>

\* the loop of line 154 is exhausted: line 192, the constructor returns. A
\* constructor that analyze called returns into lines 384 / 387, which
\* append the case to the list of its mode
Finish ==
    /\ pc = "pairs"
    /\ pair_ix >= NbPairs
    /\ IF run = "analyze"
       THEN /\ pc' = "analyze" /\ caller' = "analyze"
            /\ ix' = ix + 1
            /\ tn_error_cases' = IF mode = TN_MODE
                                  THEN Append(tn_error_cases, ix)
                                  ELSE tn_error_cases
            /\ itn_error_cases' = IF mode = ITN_MODE
                                   THEN Append(itn_error_cases, ix)
                                   ELSE itn_error_cases
       ELSE /\ pc' = "done"
            /\ UNCHANGED <<caller, ix, tn_error_cases, itn_error_cases>>
    /\ UNCHANGED <<exc, lcsVars, markVars, caseVars, chainVars, spanVars,
                   directVars, run, records, mode, report, statVars>>

\* a direct call get_spans(tokens_highlight)
CallGetSpans ==
    /\ pc = "idle"
    /\ \E mask \in SeqsOf(BOOLEAN, 0, MaxMask) :
          LET r == get_spans(mask)
          IN /\ tokens_highlight' = mask
             /\ spans' = r.spans
             /\ exc' = r.exc
             /\ pc' = IF r.exc = "none" THEN "done" ELSE "raised"
    /\ caller' = "get_spans"
    /\ UNCHANGED <<lcsVars, markVars, caseVars, chainVars, spanVars, batchVars,
                   statVars>>

\* analyze up to its loop, lines 358-377
CallAnalyze ==
    /\ pc = "idle"
    /\ \E recs \in SeqsOf(Records, 0, MaxRecords) : records' = recs
    /\ pc' = "analyze" /\ caller' = "analyze" /\ run' = "analyze"
    /\ ix' = 0 /\ tn_error_cases' = <<>> /\ itn_error_cases' = <<>>
    /\ UNCHANGED <<exc, lcsVars, markVars, caseVars, chainVars, spanVars,
                   directVars, mode, report, statVars>>

\* one iteration of the loop of lines 378-387. Both calls of from_lines pass
\* two arguments, no try surrounds them, and a block that starts with
\* neither marker is passed over
AnalyzeRecord ==
    /\ pc = "analyze"
    /\ ix < Len(records)
    /\ LET rec == records[ix + 1]
           m == IF rec.marker = "Forward Problem" THEN TN_MODE ELSE ITN_MODE
           r == from_lines(rec, m, "missing")
       IN IF rec.marker = "other"
          THEN /\ ix' = ix + 1
               /\ UNCHANGED <<pc, caller, exc, lcsVars, caseVars, chainVars, mode>>
          ELSE IF r.exc # "none"
          THEN /\ pc' = "raised" /\ exc' = r.exc
               /\ UNCHANGED <<caller, ix, lcsVars, caseVars, chainVars, mode>>
          ELSE /\ mode' = m /\ caller' = "ErrorCase"
               /\ target' = rec.text.target /\ pred' = rec.text.pred
               /\ normalizer' = "None"
               /\ target_tokens' = Split(rec.text.target)
               /\ pred_tokens' = Split(rec.text.pred)
               /\ LcsEnter(Split(rec.text.target), Split(rec.text.pred))
               /\ branch' = "none" /\ wfst_pred' = {} /\ gen_calls' = 0
               /\ UNCHANGED <<exc, ix>>
    /\ UNCHANGED <<markVars, spanVars, directVars, run, records,
                   tn_error_cases, itn_error_cases, report, statVars>>

\* lines 389-411: the loop is over, the two sections are written in the
\* order of the two lists
WriteReport ==
    /\ pc = "analyze"
    /\ ix >= Len(records)
    /\ report' = [written |-> TRUE, tn |-> tn_error_cases, itn |-> itn_error_cases]
    /\ pc' = "done"
    /\ UNCHANGED <<caller, exc, lcsVars, markVars, caseVars, chainVars, spanVars,
                   directVars, run, records, ix, mode, tn_error_cases,
                   itn_error_cases, statVars>>

\* main up to line 73: the two dicts are empty
CallMain ==
    /\ pc = "idle"
    /\ \E os \in SeqsOf(Outcomes, 0, MaxOutcomes) : outcomes' = os
    /\ pc' = "fold" /\ caller' = "main" /\ run' = "main"
    /\ fold_k' = 0
    /\ itn_class2stats' = EmptyDict /\ tn_class2stats' = EmptyDict
    /\ UNCHANGED <<exc, lcsVars, markVars, caseVars, chainVars, spanVars,
                   directVars, records, ix, mode, tn_error_cases,
                   itn_error_cases, report, printed>>

\* one iteration of the loop of lines 119-124
FoldStep ==
    /\ pc = "fold"
    /\ fold_k < Len(outcomes)
    /\ LET o == outcomes[fold_k + 1]
       IN IF o.direction = INST_BACKWARD
          THEN /\ itn_class2stats' = FoldOne(itn_class2stats, o.class, o.correct)
               /\ UNCHANGED tn_class2stats
          ELSE /\ tn_class2stats' = FoldOne(tn_class2stats, o.class, o.correct)
               /\ UNCHANGED itn_class2stats
    /\ fold_k' = fold_k + 1
    /\ UNCHANGED <<pc, caller, exc, lcsVars, markVars, caseVars, chainVars,
                   spanVars, directVars, batchVars, outcomes, printed>>

\* lines 126-130: the statistics of the two directions are printed
PrintStats ==
    /\ pc = "fold"
    /\ fold_k >= Len(outcomes)
    /\ printed' = [itn |-> ClassCounts(itn_class2stats),
                   tn |-> ClassCounts(tn_class2stats)]
    /\ pc' = "done"
    /\ UNCHANGED <<caller, exc, lcsVars, markVars, caseVars, chainVars, spanVars,
                   directVars, batchVars, outcomes, fold_k, itn_class2stats,
                   tn_class2stats>>

Next ==
    \/ CallLcs
    \/ Construct
    \/ LcsWalk
    \/ LcsExit
    \/ MarkStep
    \/ ExtractSpans
    \/ PairStep
    \/ NormalizerCall
    \/ FilterAlternates
    \/ Finish
    \/ CallGetSpans
    \/ CallAnalyze
    \/ AnalyzeRecord
    \/ WriteReport
    \/ CallMain
    \/ FoldStep
    \/ PrintStats

Spec == Init /\ [][Next]_vars

\* ----------------------------------------------------------- properties
\* the elements of t at the indices in I, in the order of t
Pick(t, I) ==
    LET F[k \in 0..Len(t)] ==
            IF k = 0 THEN <<>>
            ELSE IF k \in I THEN Append(F[k - 1], t[k]) ELSE F[k - 1]
    IN F[Len(t)]

\* every subsequence of t
SubSeqsOf(t) == { Pick(t, I) : I \in SUBSET (1..Len(t)) }

\* the number of true entries of a mask
CountTrue(mask) == Cardinality({ k \in 1..Len(mask) : mask[k] })

\* lcs has returned, to a direct caller or to the constructor
LcsReturned == caller \in {"lcs", "ErrorCase"} /\ pc \notin {"idle", "lcs_walk"}

\* C1: the list lcs(X, Y) returns is a subsequence of X and of Y, its length
\* is L[len(X)][len(Y)], and no common subsequence of X and Y is longer.
C1_LcsCorrect ==
    LcsReturned =>
        /\ lcs_tokens \in SubSeqsOf(X)
        /\ lcs_tokens \in SubSeqsOf(Y)
        /\ Len(lcs_tokens) = L[Len(X)][Len(Y)]
        /\ \A c \in SubSeqsOf(X) \cap SubSeqsOf(Y) : Len(c) <= Len(lcs_tokens)

\* lcs returned a subsequence that skips tokens of both lists, one of them
\* a token that occurs in the other list too
C1_Witness ==
    /\ caller = "lcs" /\ pc = "done"
    /\ Len(lcs_tokens) >= 2
    /\ Len(lcs_tokens) < Len(X) /\ Len(lcs_tokens) < Len(Y)
    /\ X # Y

\* the marking loop of the constructor is over
MarkingOver == caller = "ErrorCase" /\ pc \notin {"idle", "lcs_walk", "mark"}

\* C2: after the alignment step of the constructor the two masks hold as
\* many true entries as lcs returned tokens, and each mask is as long as its
\* token list.
C2_MaskConsistency ==
    MarkingOver =>
        /\ CountTrue(target_tokens_highlight) = Len(lcs_tokens)
        /\ CountTrue(pred_tokens_highlight) = Len(lcs_tokens)
        /\ Len(target_tokens_highlight) = Len(target_tokens)
        /\ Len(pred_tokens_highlight) = Len(pred_tokens)

\* both masks mix matched and unmatched tokens and a matched token repeats
C2_Witness ==
    /\ MarkingOver
    /\ Len(lcs_tokens) = 2 /\ lcs_tokens[1] = lcs_tokens[2]
    /\ CountTrue(target_tokens_highlight) < Len(target_tokens)
    /\ CountTrue(pred_tokens_highlight) < Len(pred_tokens)

\* sp is the run-length compression of the non-empty mask
SpanCoverage(sp, mask) ==
    LET n == Len(mask)
    IN /\ Len(sp) >= 1
       /\ sp[1][1] = 0
       /\ sp[Len(sp)][2] = n - 1
       /\ \A k \in 1..Len(sp) :
             /\ sp[k][1] <= sp[k][2]
             /\ \A q \in sp[k][1]..sp[k][2] : mask[q + 1] = sp[k][3]
       /\ \A k \in 1..(Len(sp) - 1) :
             /\ sp[k + 1][1] = sp[k][2] + 1
             /\ sp[k + 1][3] # sp[k][3]

\* C3: for a non-empty mask get_spans returns spans ordered by start, from 0
\* to n-1, with start <= end, each starting where the previous one ended
\* plus one, carrying the flag of the mask on all their indices, adjacent
\* spans differing in their flag.
C3_SpanCoverage ==
    /\ (caller = "get_spans" /\ pc = "done") => SpanCoverage(spans, tokens_highlight)
    /\ (caller = "ErrorCase" /\ pc \in {"pairs", "normalize", "filter", "done"}) =>
           /\ SpanCoverage(target_spans, target_tokens_highlight)
           /\ SpanCoverage(pred_spans, pred_tokens_highlight)

\* get_spans returned three spans or more, the last one a single changed
\* element
C3_Witness ==
    /\ caller = "get_spans" /\ pc = "done"
    /\ Len(spans) >= 3
    /\ spans[Len(spans)][1] = Len(tokens_highlight) - 1
    /\ spans[1][2] >= 1

\* the walk stands on a cell whose tokens differ and whose upper and left
\* neighbours hold the same value
AtTie ==
    /\ pc = "lcs_walk" /\ walk.i > 0 /\ walk.j > 0
    /\ X[walk.i] # Y[walk.j]
    /\ L[walk.i - 1][walk.j] = L[walk.i][walk.j - 1]

\* C4 as stated: on a tie the walk moves up (i decreases, j stays).
C4_TieMovesUp ==
    [][AtTie => (walk'.i = walk.i - 1 /\ walk'.j = walk.j)]_vars

\* C4: on a tie (X[i-1] != Y[j-1] and L[i-1][j] = L[i][j-1]) the walk moves
\* left: it decrements j, the index into the prediction, and keeps i.
C4_TieMovesLeft ==
    [][AtTie => (walk'.j = walk.j - 1 /\ walk'.i = walk.i)]_vars

\* the walk has just left a tie cell (i, j+1), both of whose neighbours held
\* a positive value
C4_Witness ==
    /\ pc = "lcs_walk" /\ walk.move = "left"
    /\ walk.i > 0 /\ walk.j + 1 <= Len(Y)
    /\ X[walk.i] # Y[walk.j + 1]
    /\ L[walk.i - 1][walk.j + 1] = L[walk.i][walk.j]
    /\ L[walk.i][walk.j] > 0

\* the 0-based positions of the first n tokens of toks found greedily in
\* tokens: each the first occurrence after the previous position
GreedyPositions(tokens, toks, n) ==
    LET P[k \in 0..n] ==
            IF k = 0 THEN <<>>
            ELSE LET from == IF k = 1 THEN 0 ELSE P[k - 1][k - 1] + 1
                     hits == { q \in from..(Len(tokens) - 1) : tokens[q + 1] = toks[k] }
                 IN Append(P[k - 1],
                           IF hits = {} THEN Len(tokens)
                           ELSE CHOOSE q \in hits : \A r \in hits : q <= r)
    IN P[n]

\* the marks of a mask are the greedy positions of the consumed lcs tokens,
\* all of them before the cursor
GreedyMarks(tokens, mask, idx) ==
    LET pos == GreedyPositions(tokens, lcs_tokens, tok_k)
    IN /\ idx <= Len(tokens)
       /\ \A k \in 1..tok_k : pos[k] < idx
       /\ \A k \in 1..(tok_k - 1) : pos[k] < pos[k + 1]
       /\ { q \in 0..(Len(mask) - 1) : mask[q + 1] } = { pos[k] : k \in 1..tok_k }
       /\ Pick(tokens, { pos[k] + 1 : k \in 1..tok_k }) = SubSeq(lcs_tokens, 1, tok_k)

\* C5: the marking walk marks, for each lcs token in order, the first
\* occurrence at or after the cursor in each sequence; the cursors stay
\* within the sequences, the marked positions increase strictly, and the
\* marked tokens of each sequence read left to right are the list lcs
\* returned, also with repeated tokens.
C5_GreedyMarking ==
    (caller = "ErrorCase" /\ pc \notin {"idle", "lcs_walk"}) =>
        /\ exc # "IndexError"
        /\ GreedyMarks(target_tokens, target_tokens_highlight, target_idx)
        /\ GreedyMarks(pred_tokens, pred_tokens_highlight, pred_idx)
        /\ (pc # "mark" => tok_k = Len(lcs_tokens))

\* marking is over for a case where a token repeats in both sequences and
\* the marks of the two sequences sit at different positions
C5_Witness ==
    /\ MarkingOver
    /\ Len(lcs_tokens) >= 2
    /\ \E a, b \in 1..Len(target_tokens) : a # b /\ target_tokens[a] = target_tokens[b]
    /\ \E a, b \in 1..Len(pred_tokens) : a # b /\ pred_tokens[a] = pred_tokens[b]
    /\ target_tokens_highlight # pred_tokens_highlight

\* C6: get_spans called with an empty mask ends in an error (the IndexError
\* of line 262) and returns no span list.
C6_EmptyMaskFails ==
    (caller = "get_spans" /\ Len(tokens_highlight) = 0) =>
        /\ pc = "raised"
        /\ exc = "IndexError"
        /\ spans = <<>>

\* get_spans was called with the empty mask and has raised
C6_Witness ==
    /\ caller = "get_spans" /\ tokens_highlight = <<>>
    /\ pc = "raised"

\* the classification chain of lines 166-188 has been entered for the pair
\* at pair_ix (an IndexError can only come from the code before the loop)
ChainRan ==
    /\ caller = "ErrorCase"
    /\ \/ pc \in {"normalize", "filter"}
       \/ pc = "raised" /\ exc # "IndexError"

\* the chain entered for the pair at pair_ix has ended
ChainEnded == ChainRan /\ pc = "raised"

\* the number of mismatched spans among the first k spans of sp
NbMismatched(sp, k) == Cardinality({ q \in 1..k : ~sp[q][3] })

\* C7: the classification chain runs only for a pair of a prediction span
\* and a reference span that are both mismatched, the k-th mismatched
\* prediction span being paired with the k-th mismatched reference span.
C7_OnlyMismatchedPairs ==
    ChainRan =>
        /\ ~pred_spans[pair_ix + 1][3]
        /\ ~target_spans[pair_ix + 1][3]
        /\ NbMismatched(pred_spans, pair_ix + 1) =
               NbMismatched(target_spans, pair_ix + 1)

\* C8: a case whose reference and prediction yield different numbers of
\* mismatched spans is reported as an anomaly: its construction does not
\* return as if nothing had happened.
C8_UnequalCountsReported ==
    (caller = "ErrorCase" /\ pc = "done") =>
        NbMismatched(pred_spans, Len(pred_spans)) =
            NbMismatched(target_spans, Len(target_spans))

\* the two local checks of the chain, on the strings the code compares
NoPunctEqual ==
    Strip(_remove_punctuation(pred)) = Strip(_remove_punctuation(target))

ZsEqual ==
    ReplaceSZ(Strip(_remove_punctuation(pred))) =
        ReplaceSZ(Strip(_remove_punctuation(target)))

\* the verdict the ordered policy gives: the first check that holds decides
PolicyVerdict ==
    IF NoPunctEqual THEN "correct_with_no_punct"
    ELSE IF ZsEqual THEN "correct_with_zs"
    ELSE IF Strip(_remove_punctuation(pred)) \in
                { _remove_punctuation(a) : a \in wfst_pred }
    THEN "acceptable_error"
    ELSE "wrong"

\* C9: the checks of a mismatched pair are tried in order and the first that
\* holds decides the verdict: equality of the normalized forms, equality
\* after s-to-z, membership of the normalized prediction in the normalized
\* alternatives, else wrong; the generator is called only after both local
\* checks failed, and at most once for the pair.
C9_OrderedPolicy ==
    ChainRan =>
        /\ gen_calls <= 1
        /\ (gen_calls = 1 => ~NoPunctEqual /\ ~ZsEqual)
        /\ (ChainEnded /\ exc # "GenerationError" =>
               /\ branch = PolicyVerdict
               /\ exc \notin {"UnboundLocalError", "NameError", "AttributeError"})

\* C10: an error of the alternate generator does not leave the classifier:
\* the pair gets the verdict wrong, marked as a generation failure, and the
\* construction goes on.
C10_GeneratorErrorContained ==
    ~(caller = "ErrorCase" /\ pc = "raised" /\ exc = "GenerationError")

\* C11: in a batch run of analyze a record whose processing fails is
\* skipped and the later records are still processed: no record ends the
\* run with an exception.
C11_BatchResilient ==
    run = "analyze" => pc # "raised"

\* the 0-based indices of the records that start with the marker, in the
\* order of the log
IndicesOf(marker) ==
    LET F[k \in 0..Len(records)] ==
            IF k = 0 THEN <<>>
            ELSE IF records[k].marker = marker THEN Append(F[k - 1], k - 1)
            ELSE F[k - 1]
    IN F[Len(records)]

\* C14: for any sequence of records the report lists every forward case in
\* the forward section and every backward case in the backward section, no
\* case in both, each section in the order of the records.
C14_ReportSections ==
    (run = "analyze" /\ pc \in {"done", "raised"}) =>
        /\ report.written
        /\ report.tn = IndicesOf("Forward Problem")
        /\ report.itn = IndicesOf("Backward Problem")
        /\ \A a \in 1..Len(report.tn), b \in 1..Len(report.itn) :
               report.tn[a] # report.itn[b]

\* what the local checks of the chain made of the pair at pair_ix
LocalOutcome ==
    IF branch \in {"correct_with_no_punct", "correct_with_zs"} THEN branch
    ELSE "generator"

\* what the local checks make of the texts of the two spans of the pair
SpanLocalOutcome ==
    LET p == Strip(_remove_punctuation(SpanText(pred_tokens, pred_spans[pair_ix + 1])))
        t == Strip(_remove_punctuation(SpanText(target_tokens, target_spans[pair_ix + 1])))
    IN IF p = t THEN "correct_with_no_punct"
       ELSE IF ReplaceSZ(p) = ReplaceSZ(t) THEN "correct_with_zs"
       ELSE "generator"

\* C13: the verdict of a mismatched pair is computed from the text of the
\* pair's own prediction span and reference span, not from the whole
\* prediction and reference strings of the case.
C13_VerdictFromSpanText ==
    ChainRan => LocalOutcome = SpanLocalOutcome

\* the dict main keeps for a direction
StatsOf(direction) ==
    IF direction = INST_BACKWARD THEN itn_class2stats ELSE tn_class2stats

\* the positions, among the first k outcomes, of those of a class and a
\* direction
FoldedOf(direction, class, k) ==
    { q \in 1..k : outcomes[q].direction = direction /\ outcomes[q].class = class }

\* the ints the outcomes at the positions in I contribute, in their order
IntsOf(I) ==
    LET F[k \in 0..Len(outcomes)] ==
            IF k = 0 THEN <<>>
            ELSE IF k \in I
            THEN Append(F[k - 1], IF outcomes[k].correct THEN 1 ELSE 0)
            ELSE F[k - 1]
    IN F[Len(outcomes)]

\* the outcomes os folded one after the other into two empty dicts
RECURSIVE FoldAll(_, _, _)
FoldAll(os, itn, tn) ==
    IF Len(os) = 0 THEN [itn |-> ClassCounts(itn), tn |-> ClassCounts(tn)]
    ELSE IF os[1].direction = INST_BACKWARD
    THEN FoldAll(Tail(os), FoldOne(itn, os[1].class, os[1].correct), tn)
    ELSE FoldAll(Tail(os), itn, FoldOne(tn, os[1].class, os[1].correct))

\* the permutations of 1..n
PermsOf(n) ==
    { f \in [1..n -> 1..n] : \A a, b \in 1..n : a # b => f[a] # f[b] }

\* C12: after any sequence of outcomes is folded, the bucket of each class
\* and direction holds as total the number of folded outcomes of that class
\* and direction and as correct count the number of those that were
\* correct; a fold touches the bucket of its own class and direction only
\* (every bucket is the list of its own outcomes, in their order); and the
\* printed totals and correct counts are those of every permutation of the
\* outcomes.
C12_BucketCounts ==
    run = "main" =>
        /\ \A d \in {INST_FORWARD, INST_BACKWARD}, c \in Classes :
              LET mine == FoldedOf(d, c, fold_k)
                  right == { q \in mine : outcomes[q].correct }
              IN IF mine = {} THEN c \notin DOMAIN StatsOf(d)
                 ELSE /\ c \in DOMAIN StatsOf(d)
                      /\ StatsOf(d)[c] = IntsOf(mine)
                      /\ ClassCounts(StatsOf(d))[c].total_count = Cardinality(mine)
                      /\ ClassCounts(StatsOf(d))[c].correct_count = Cardinality(right)
        /\ pc = "done" =>
              /\ printed = [itn |-> ClassCounts(itn_class2stats),
                            tn |-> ClassCounts(tn_class2stats)]
              /\ \A f \in PermsOf(Len(outcomes)) :
                    FoldAll([k \in 1..Len(outcomes) |-> outcomes[f[k]]],
                            EmptyDict, EmptyDict) = printed

\* the statistics are printed for a run in which one bucket took a correct
\* and a wrong outcome, in that order or the other, and another bucket of
\* the same class took an outcome of the other direction
C12_Witness ==
    /\ run = "main" /\ pc = "done"
    /\ \E c \in Classes :
          /\ c \in DOMAIN printed.tn /\ c \in DOMAIN printed.itn
          /\ printed.tn[c].total_count = 2
          /\ printed.tn[c].correct_count = 1

=============================================================================
